---------------------------- MODULE Spec2Model ----------------------------
(***************************************************************************)
(* Storage-access layer of TMSU (storage/database and the init command):   *)
(* connection-path resolution, the connection and transaction lifecycle    *)
(* of CreateAt / OpenAt / insertRootPath, schema creation and versioning,  *)
(* the init command over a list of paths, and the translation of           *)
(* statements for the networked backend.  Strings are sequences of         *)
(* one-character strings.                                                  *)
(***************************************************************************)
EXTENDS Integers, Sequences, FiniteSets, TLC

VARIABLES
    input,      \* PathResolver: the connection string under test
    resolved,   \* PathResolver: what GetScheme / HasScheme returned for it
    tx,         \* schema functions: the store as seen inside the open Tx
    prev,       \* schema functions: summary of the call before the last one
    ret,        \* schema functions: summary of the last call
    rt,         \* version round trip: the last insert-then-read
    stores,     \* connect sequence: committed content of every store
    fs,         \* connect sequence: the paths that exist on the filesystem
    last        \* connect sequence: record of the last top-level call

vars == <<input, resolved, tx, prev, ret, rt, stores, fs, last>>

None == "none"
Nil == "nil"

Min(S) == CHOOSE x \in S : \A y \in S : x <= y

(***************************************************************************)
(* PathResolver: GetScheme, SplitPathFromScheme, HasScheme                 *)
(***************************************************************************)

\* \w of Go's regexp (ASCII letters, digits, underscore), over the letters used here
WordChars == {"a", "b", "d", "g", "h", "l", "m", "p", "q", "s", "t", "u", "x", "y", "3", "e", "i"}

IsWord(c) == c \in WordChars

\* the literal "://" starts at position j of path
SepAt(path, j) ==
    /\ j >= 1
    /\ j + 2 <= Len(path)
    /\ path[j] = ":"
    /\ path[j + 1] = "/"
    /\ path[j + 2] = "/"

\* a match of \w+?:\/\/ that starts at i has its separator at j
MatchAt(path, i, j) ==
    /\ i < j
    /\ SepAt(path, j)
    /\ \A k \in i..(j - 1) : IsWord(path[k])

MatchStarts(path) ==
    {i \in 1..Len(path) : \E j \in (i + 1)..Len(path) : MatchAt(path, i, j)}

\* regexp.Find returns the leftmost match; the match is cut of its "://"
GetScheme(path) ==
    IF MatchStarts(path) = {} THEN <<>>
    ELSE LET i == Min(MatchStarts(path))
             j == Min({k \in (i + 1)..Len(path) : MatchAt(path, i, k)})
         IN SubSeq(path, i, j - 1)

SepStarts(path) == {j \in 1..Len(path) : SepAt(path, j)}

\* strings.SplitAfterN(path, "://", 2): the text after the first "://"
SplitPathFromScheme(path) ==
    IF SepStarts(path) = {} THEN path
    ELSE SubSeq(path, Min(SepStarts(path)) + 3, Len(path))

HasScheme_AnyLength(path) == Len(GetScheme(path)) > 0

HasScheme(path) == Len(GetScheme(path)) > 1


(***************************************************************************)
(* The relational store and the statements the schema code executes on it  *)
(***************************************************************************)

VersionColumns == {"major", "minor", "patch", "revision"}

LegacyVersionColumns == {"major", "minor", "patch"}

\* a store that holds no table: the "absent" schema
EmptyStore ==
    [tables |-> {}, indexes |-> {}, vcols |-> VersionColumns,
     value |-> {}, version |-> <<>>, setting |-> {}]

EngineError == "engine error"

RowsAffectedError == "rows affected error"

NoFault == [kind |-> "none", at |-> 0]

\* CREATE TABLE IF NOT EXISTS <table>
ExecCreateTable(st, table) ==
    [st |-> [st EXCEPT !.tables = @ \cup {table}], err |-> Nil, rows |-> 0]

\* CREATE INDEX IF NOT EXISTS <index> ON <table>(...)
ExecCreateIndex(st, index, table) ==
    IF table \notin st.tables
    THEN [st |-> st, err |-> EngineError, rows |-> 0]
    ELSE [st |-> [st EXCEPT !.indexes = @ \cup {index}], err |-> Nil, rows |-> 0]

\* INSERT INTO `value` (id, name) VALUES (?, ?): id is the primary key, name is unique
ExecInsertValue(st, id, name) ==
    IF \/ "value" \notin st.tables
       \/ \E row \in st.value : row.id = id \/ row.name = name
    THEN [st |-> st, err |-> EngineError, rows |-> 0]
    ELSE [st |-> [st EXCEPT !.value = @ \cup {[id |-> id, name |-> name]}],
          err |-> Nil, rows |-> 1]

\* INSERT INTO version (major, minor, patch, revision) VALUES (?, ?, ?, ?)
ExecInsertVersion(st, version) ==
    IF \/ "version" \notin st.tables
       \/ st.vcols # VersionColumns
       \/ \E k \in 1..Len(st.version) : st.version[k] = version
    THEN [st |-> st, err |-> EngineError, rows |-> 0]
    ELSE [st |-> [st EXCEPT !.version = Append(@, version)], err |-> Nil, rows |-> 1]

\* UPDATE version SET major = ?, minor = ?, patch = ?, revision = ? (every row)
ExecUpdateVersion(st, version) ==
    IF \/ "version" \notin st.tables
       \/ st.vcols # VersionColumns
       \/ Len(st.version) > 1
    THEN [st |-> st, err |-> EngineError, rows |-> 0]
    ELSE [st |-> [st EXCEPT !.version = [k \in 1..Len(@) |-> version]],
          err |-> Nil, rows |-> Len(st.version)]

Engine(st, stmt) ==
    CASE stmt.kind = "createTable" -> ExecCreateTable(st, stmt.table)
      [] stmt.kind = "createIndex" -> ExecCreateIndex(st, stmt.index, stmt.table)
      [] stmt.kind = "insertValue" -> ExecInsertValue(st, stmt.id, stmt.name)
      [] stmt.kind = "insertVersion" -> ExecInsertVersion(st, stmt.version)
      [] stmt.kind = "updateVersion" -> ExecUpdateVersion(st, stmt.version)

CreateTableStmt(table) == [kind |-> "createTable", table |-> table]

CreateIndexStmt(index, table) == [kind |-> "createIndex", index |-> index, table |-> table]

\* the state of a Tx while a function runs on it: the store, the number of Exec
\* calls made so far, and the outcome of the last Exec
Start(st) == [st |-> st, n |-> 0, err |-> Nil, rows |-> 0, raErr |-> FALSE]

\* what Tx.Exec hands back for the k-th Exec of a run, given the engine's answer e
Executed(k, e, raErr) ==
    [st |-> e.st, n |-> k, err |-> e.err, rows |-> e.rows, raErr |-> raErr]

\* Tx.Exec.  The fault f fails the f.at-th Exec of the run in the driver
\* (kind "exec"), or makes its result.RowsAffected() fail (kind "rows").
Exec(r, stmt, f) ==
    IF f.kind = "exec" /\ f.at = r.n + 1
    THEN [st |-> r.st, n |-> r.n + 1, err |-> EngineError, rows |-> 0, raErr |-> FALSE]
    ELSE Executed(r.n + 1, Engine(r.st, stmt), f.kind = "rows" /\ f.at = r.n + 1)

\* Exec after an Exec: not reached when the earlier one returned an error
ExecNext(a, stmt, f) == IF a.err # Nil THEN a ELSE Exec(a, stmt, f)

(***************************************************************************)
(* SchemaVersionStore                                                      *)
(***************************************************************************)

latestSchemaVersion == [major |-> 0, minor |-> 7, patch |-> 0, revision |-> 1]

\* schemaVersion{}
noVersion == [major |-> 0, minor |-> 0, patch |-> 0, revision |-> 0]

currentSchemaVersion_NoRevision(st) ==
    IF "version" \notin st.tables \/ Len(st.version) = 0 THEN noVersion
    ELSE LET row == st.version[1] IN
         [major |-> row.major, minor |-> row.minor, patch |-> row.patch, revision |-> 0]

currentSchemaVersion_NoFallback(st) ==
    IF "version" \notin st.tables \/ Len(st.version) = 0 THEN noVersion
    ELSE IF DOMAIN st.version[1] = VersionColumns THEN st.version[1]
    ELSE noVersion

\* SELECT * FROM version; Scan into four fields, else into three
currentSchemaVersion(st) ==
    IF "version" \notin st.tables THEN noVersion
    ELSE IF Len(st.version) = 0 THEN noVersion
    ELSE LET row == st.version[1] IN
         IF DOMAIN row = VersionColumns
         THEN [major |-> row.major, minor |-> row.minor,
               patch |-> row.patch, revision |-> row.revision]
         ELSE IF DOMAIN row = LegacyVersionColumns
         THEN [major |-> row.major, minor |-> row.minor,
               patch |-> row.patch, revision |-> 0]
         ELSE noVersion

ExpectOneRow_Unchecked(x, execMessage, rowsMessage) ==
    IF x.err # Nil THEN [x EXCEPT !.err = execMessage]
    ELSE IF x.raErr THEN [x EXCEPT !.err = RowsAffectedError]
    ELSE x

\* the checks after an INSERT or UPDATE: the Exec error is wrapped, the
\* RowsAffected error returned, and any count but one row is an error
ExpectOneRow(x, execMessage, rowsMessage) ==
    IF x.err # Nil THEN [x EXCEPT !.err = execMessage]
    ELSE IF x.raErr THEN [x EXCEPT !.err = RowsAffectedError]
    ELSE IF x.rows # 1 THEN [x EXCEPT !.err = rowsMessage]
    ELSE x

insertSchemaVersion(r, version, f) ==
    ExpectOneRow(Exec(r, [kind |-> "insertVersion", version |-> version], f),
                 "could not update schema version", "version could not be inserted")

updateSchemaVersion_Inserting(r, version, f) ==
    IF currentSchemaVersion(r.st) = version THEN [r EXCEPT !.err = Nil]
    ELSE insertSchemaVersion(r, version, f)

updateSchemaVersion(r, version, f) ==
    IF currentSchemaVersion(r.st) = version THEN [r EXCEPT !.err = Nil]
    ELSE ExpectOneRow(Exec(r, [kind |-> "updateVersion", version |-> version], f),
                      "could not update schema version", "version could not be updated")

(***************************************************************************)
(* SchemaManager                                                           *)
(***************************************************************************)

createTagTable(r, f) ==
    ExecNext(Exec(r, CreateTableStmt("tag"), f),
             CreateIndexStmt("idx_tag_name", "tag"), f)

createFileTable(r, f) ==
    ExecNext(Exec(r, CreateTableStmt("file"), f),
             CreateIndexStmt("idx_file_fingerprint", "file"), f)

createValueTable(r, f) == Exec(r, CreateTableStmt("value"), f)

createFileTagTable(r, f) ==
    ExecNext(ExecNext(ExecNext(Exec(r, CreateTableStmt("file_tag"), f),
                               CreateIndexStmt("idx_file_tag_file_id", "file_tag"), f),
                      CreateIndexStmt("idx_file_tag_tag_id", "file_tag"), f),
             CreateIndexStmt("idx_file_tag_value_id", "file_tag"), f)

createImplicationTable(r, f) == Exec(r, CreateTableStmt("implication"), f)

createQueryTable(r, f) == Exec(r, CreateTableStmt("query"), f)

createSettingTable(r, f) == Exec(r, CreateTableStmt("setting"), f)

createVersionTable(r, f) == Exec(r, CreateTableStmt("version"), f)

insertDefaultValue(r, f) ==
    ExpectOneRow(Exec(r, [kind |-> "insertValue", id |-> 0, name |-> "dummy"], f),
                 "could not insert default value", "default value could not be inserted")

SchemaStep_FileTagEarly(k, r, f) ==
    CASE k = 1 -> createTagTable(r, f)
      [] k = 2 -> createFileTable(r, f)
      [] k = 3 -> createFileTagTable(r, f)
      [] k = 4 -> createValueTable(r, f)
      [] k = 5 -> createImplicationTable(r, f)
      [] k = 6 -> createQueryTable(r, f)
      [] k = 7 -> createSettingTable(r, f)
      [] k = 8 -> createVersionTable(r, f)
      [] k = 9 -> insertDefaultValue(r, f)
      [] k = 10 -> insertSchemaVersion(r, latestSchemaVersion, f)

\* the k-th step of createSchema, in the order of the source
SchemaStep(k, r, f) ==
    CASE k = 1 -> createTagTable(r, f)
      [] k = 2 -> createFileTable(r, f)
      [] k = 3 -> createValueTable(r, f)
      [] k = 4 -> createFileTagTable(r, f)
      [] k = 5 -> createImplicationTable(r, f)
      [] k = 6 -> createQueryTable(r, f)
      [] k = 7 -> createSettingTable(r, f)
      [] k = 8 -> createVersionTable(r, f)
      [] k = 9 -> insertDefaultValue(r, f)
      [] k = 10 -> insertSchemaVersion(r, latestSchemaVersion, f)

\* steps k.. of createSchema: after a step that failed no further step runs
\* and its error is what is returned
RECURSIVE SchemaFrom(_, _, _)
SchemaFrom(k, r, f) ==
    IF k > 10 \/ r.err # Nil THEN r
    ELSE SchemaFrom(k + 1, SchemaStep(k, r, f), f)

createSchema(r, f) == SchemaFrom(1, r, f)

\* the number of Exec calls of one complete createSchema
SchemaExecs == createSchema(Start(EmptyStore), NoFault).n

\* the single engine faults of a run of n Exec calls whose last m results are
\* asked for their RowsAffected: none, the k-th Exec failing in the driver, or
\* RowsAffected failing on the result of one of the last m
Faults(n, m) ==
    {NoFault} \cup [kind : {"exec"}, at : 1..n] \cup [kind : {"rows"}, at : (n - m + 1)..n]

(***************************************************************************)
(* Filesystem paths, drivers and connections                               *)
(***************************************************************************)

\* the drivers registered by the imports of database.go
Sqlite3 == <<"s", "q", "l", "i", "t", "e", "3">>

MySql == <<"m", "y", "s", "q", "l">>

Drivers == {Sqlite3, MySql}

TmsuDir == <<".", "t", "m", "s", "u">>

DbFile == <<"d", "b">>

\* filepath.Clean on paths without "." and ".." elements: a separator is
\* dropped when it follows a separator or is trailing
CleanDrops(p, k) ==
    /\ p[k] = "/"
    /\ k > 1
    /\ \/ p[k - 1] = "/"
       \/ \A m \in k..Len(p) : p[m] = "/"

RECURSIVE CleanFrom(_, _)
CleanFrom(p, k) ==
    IF k > Len(p) THEN <<>>
    ELSE (IF CleanDrops(p, k) THEN <<>> ELSE <<p[k]>>) \o CleanFrom(p, k + 1)

Clean(p) == CleanFrom(p, 1)

\* filepath.Join(dir, name)
Join(dir, name) == Clean(dir \o <<"/">> \o name)

\* the directory a path lies in
Parent(p) ==
    LET slashes == {k \in 1..Len(p) : p[k] = "/"} IN
    IF slashes = {} THEN <<>>
    ELSE LET k == CHOOSE x \in slashes : \A y \in slashes : y <= x IN
         IF k = 1 THEN <<"/">> ELSE SubSeq(p, 1, k - 1)

NoError == [kind |-> Nil, path |-> <<>>]

Error(kind, path) == [kind |-> kind, path |-> path]

\* one step of a call, as the caller of the engine sees it
Event(ev, conn, txn, ok) == [ev |-> ev, conn |-> conn, tx |-> txn, ok |-> ok]

\* OpenDB: the driver and the address sql.Open is called with
OpenTarget(path) ==
    IF HasScheme(path)
    THEN [driver |-> GetScheme(path), dsn |-> SplitPathFromScheme(path)]
    ELSE [driver |-> Sqlite3, dsn |-> path]

\* OpenDB: sql.Open fails for a driver that is not registered (or fault "open")
OpenDB(path, f) ==
    LET target == OpenTarget(path) IN
    [target |-> target,
     err |-> IF f.kind = "open" \/ target.driver \notin Drivers THEN EngineError ELSE Nil]

\* Database.Begin: the first use of the handle connects.  The embedded engine
\* opens, and creates if missing, the file at dsn, which needs its directory.
Begin(target, f, w, kind) ==
    IF f.kind = kind THEN [err |-> EngineError, fs |-> w.fs]
    ELSE IF target.driver = Sqlite3 /\ Parent(target.dsn) \notin w.fs
    THEN [err |-> EngineError, fs |-> w.fs]
    ELSE [err |-> Nil,
          fs |-> IF target.driver = Sqlite3 THEN w.fs \cup {target.dsn} ELSE w.fs]

\* upgrade, once createSchema has run on a store without a version
UpgradeCreated(c, f) ==
    IF c.err # Nil THEN c ELSE updateSchemaVersion(c, latestSchemaVersion, f)

\* the schema step of the connect sequence: create the schema on a store that
\* has no version, then bring the stored version to the latest
upgrade(r, f) ==
    IF currentSchemaVersion(r.st) = latestSchemaVersion THEN r
    ELSE IF currentSchemaVersion(r.st) = noVersion
    THEN UpgradeCreated(createSchema(r, f), f)
    ELSE updateSchemaVersion(r, latestSchemaVersion, f)

Outcome(w, err, db, trace) == [w |-> w, err |-> err, db |-> db, trace |-> trace]

\* CreateAt from the commit on; the deferred db.Close() runs last
CreateAtCommit(path, target, u, f, w) ==
    IF f.kind = "commit"
    THEN Outcome(w, Error("DatabaseTransactionError", path), FALSE,
                 <<Event("open", 1, 0, TRUE), Event("begin", 1, 1, TRUE),
                   Event("upgrade", 1, 1, TRUE), Event("commit", 1, 1, FALSE),
                   Event("close", 1, 0, TRUE)>>)
    ELSE Outcome([w EXCEPT !.stores[target] = u.st], NoError, FALSE,
                 <<Event("open", 1, 0, TRUE), Event("begin", 1, 1, TRUE),
                   Event("upgrade", 1, 1, TRUE), Event("commit", 1, 1, TRUE),
                   Event("close", 1, 0, TRUE)>>)

\* CreateAt from the return of upgrade on
CreateAtUpgraded(path, target, u, f, w) ==
    IF u.err # Nil
    THEN Outcome(w, Error(u.err, <<>>), FALSE,
                 <<Event("open", 1, 0, TRUE), Event("begin", 1, 1, TRUE),
                   Event("upgrade", 1, 1, FALSE), Event("close", 1, 0, TRUE)>>)
    ELSE CreateAtCommit(path, target, u, f, w)

\* CreateAt from the return of db.Begin() on
CreateAtBegun(path, target, b, f, w) ==
    IF b.err # Nil
    THEN Outcome([w EXCEPT !.fs = b.fs], Error("DatabaseTransactionError", path), FALSE,
                 <<Event("open", 1, 0, TRUE), Event("begin", 1, 1, FALSE),
                   Event("close", 1, 0, TRUE)>>)
    ELSE CreateAtUpgraded(path, target, upgrade(Start(w.stores[target]), f), f,
                          [w EXCEPT !.fs = b.fs])

\* CreateAt from the return of OpenDB on
CreateAtOpened(path, o, f, w) ==
    IF o.err # Nil
    THEN Outcome(w, Error("DatabaseAccessError", path), FALSE,
                 <<Event("open", 1, 0, FALSE)>>)
    ELSE CreateAtBegun(path, o.target, Begin(o.target, f, w, "begin"), f, w)

CreateAt(path, f, w) == CreateAtOpened(path, OpenDB(path, f), f, w)

\* os.Stat(path)
Stat(path, f, w) ==
    IF f.kind = "stat" THEN "other"
    ELSE IF path \in w.fs THEN Nil ELSE "notexist"

OpenAtGuard_IgnoreScheme(path, statErr) ==
    IF statErr = Nil THEN Nil
    ELSE IF statErr = "notexist" THEN "DatabaseNotFoundError" ELSE "DatabaseAccessError"

\* OpenAt: the error kind the stat check returns, Nil to go on
OpenAtGuard(path, statErr) ==
    IF statErr # Nil /\ ~HasScheme(path)
    THEN IF statErr = "notexist" THEN "DatabaseNotFoundError" ELSE "DatabaseAccessError"
    ELSE Nil

OpenAtCommit_Unchecked(path, target, u, f, w) ==
    Outcome(IF f.kind = "commit" THEN w ELSE [w EXCEPT !.stores[target] = u.st],
            NoError, TRUE,
            <<Event("open", 1, 0, TRUE), Event("begin", 1, 1, TRUE),
              Event("upgrade", 1, 1, TRUE), Event("commit", 1, 1, f.kind # "commit")>>)

\* OpenAt: the commit and the return of the connection
OpenAtCommit(path, target, u, f, w) ==
    IF f.kind = "commit"
    THEN Outcome(w, Error("DatabaseTransactionError", path), FALSE,
                 <<Event("open", 1, 0, TRUE), Event("begin", 1, 1, TRUE),
                   Event("upgrade", 1, 1, TRUE), Event("commit", 1, 1, FALSE)>>)
    ELSE Outcome([w EXCEPT !.stores[target] = u.st], NoError, TRUE,
                 <<Event("open", 1, 0, TRUE), Event("begin", 1, 1, TRUE),
                   Event("upgrade", 1, 1, TRUE), Event("commit", 1, 1, TRUE)>>)

\* OpenAt from the return of upgrade on
OpenAtUpgraded(path, target, u, f, w) ==
    IF u.err # Nil
    THEN Outcome(w, Error(u.err, <<>>), FALSE,
                 <<Event("open", 1, 0, TRUE), Event("begin", 1, 1, TRUE),
                   Event("upgrade", 1, 1, FALSE)>>)
    ELSE OpenAtCommit(path, target, u, f, w)

OpenAtBegun_AsAccessError(path, target, b, f, w) ==
    IF b.err # Nil
    THEN Outcome([w EXCEPT !.fs = b.fs], Error("DatabaseAccessError", path), FALSE,
                 <<Event("open", 1, 0, TRUE), Event("begin", 1, 1, FALSE)>>)
    ELSE OpenAtUpgraded(path, target, upgrade(Start(w.stores[target]), f), f,
                        [w EXCEPT !.fs = b.fs])

\* OpenAt from the return of db.Begin() on
OpenAtBegun(path, target, b, f, w) ==
    IF b.err # Nil
    THEN Outcome([w EXCEPT !.fs = b.fs], Error("DatabaseTransactionError", path), FALSE,
                 <<Event("open", 1, 0, TRUE), Event("begin", 1, 1, FALSE)>>)
    ELSE OpenAtUpgraded(path, target, upgrade(Start(w.stores[target]), f), f,
                        [w EXCEPT !.fs = b.fs])

\* OpenAt from the return of OpenDB on
OpenAtOpened(path, o, f, w) ==
    IF o.err # Nil
    THEN Outcome(w, Error("DatabaseAccessError", path), FALSE,
                 <<Event("open", 1, 0, FALSE)>>)
    ELSE OpenAtBegun(path, o.target, Begin(o.target, f, w, "begin"), f, w)

OpenAt(path, f, w) ==
    IF OpenAtGuard(path, Stat(path, f, w)) # Nil
    THEN Outcome(w, Error(OpenAtGuard(path, Stat(path, f, w)), path), FALSE, <<>>)
    ELSE OpenAtOpened(path, OpenDB(path, f), f, w)

\* os.Mkdir(dir, 0755), its error ignored
Mkdir(dir, f, w) ==
    IF f.kind # "mkdir" /\ Parent(dir) \in w.fs
    THEN [w EXCEPT !.fs = @ \cup {dir}]
    ELSE w

initializeDatabase_InPlace(path) == path

\* initializeDatabase: the path the store is created at
DbPathOf(path) ==
    IF ~HasScheme(path) THEN Join(Join(path, TmsuDir), DbFile) ELSE path

initializeDatabase(path, f, w) ==
    IF ~HasScheme(path)
    THEN CreateAt(DbPathOf(path), f, Mkdir(Join(path, TmsuDir), f, w))
    ELSE CreateAt(DbPathOf(path), f, w)

RootPathKey == <<"r", "o", "o", "t", "P", "a", "t", "h">>

\* UpdateSetting(tx, name, value): the setting row is written or replaced.  It
\* can fail before its statement has taken effect (fault "setting") or after
\* it, when the result of the statement is examined (fault "settingResult").
UpdateSetting(r, name, value, f) ==
    IF f.kind = "setting" THEN [r EXCEPT !.err = "could not update setting"]
    ELSE [r EXCEPT
            !.st.setting = {s \in @ : s.name # name} \cup {[name |-> name, value |-> value]},
            !.err = IF f.kind = "settingResult" THEN "could not update setting" ELSE Nil]

\* insertRootPath from the return of UpdateSetting on: the deferred calls run
\* in reverse order of their defer statements, db.Close() first and
\* tx.Commit() after it; the commit writes what the Tx holds
insertRootPathDeferred(target, o, s, f) ==
    Outcome(IF f.kind = "commit2" THEN o.w ELSE [o.w EXCEPT !.stores[target] = s.st],
            IF s.err = Nil THEN NoError ELSE Error(s.err, <<>>),
            FALSE,
            o.trace \o <<Event("begin", 1, 2, TRUE),
                         Event("setting", 1, 2, s.err = Nil),
                         Event("close", 1, 0, TRUE),
                         Event("commit", 1, 2, f.kind # "commit2")>>)

\* insertRootPath from the return of OpenAt on
insertRootPathOpened(options, target, o, f) ==
    IF o.err # NoError THEN Outcome(o.w, o.err, FALSE, o.trace)
    ELSE IF f.kind = "begin2"
    THEN Outcome(o.w, Error(EngineError, <<>>), FALSE,
                 o.trace \o <<Event("begin", 1, 2, FALSE)>>)
    ELSE insertRootPathDeferred(
             target, o,
             UpdateSetting(Start(o.w.stores[target]), RootPathKey, options.rootPath, f),
             f)

insertRootPath(options, path, f, w) ==
    IF HasScheme(path) /\ options.hasRootPath
    THEN insertRootPathOpened(options, OpenTarget(path), OpenAt(path, f, w), f)
    ELSE Outcome(w, NoError, FALSE, <<>>)

(***************************************************************************)
(* Values of the variables a specification leaves alone                    *)
(***************************************************************************)

NoResolved == [done |-> FALSE, scheme |-> <<>>, has |-> FALSE]

NoCall ==
    [op |-> None, version |-> noVersion, faulted |-> FALSE, err |-> Nil,
     execs |-> 0, rows |-> 0, before |-> EmptyStore]

NoPrev == [op |-> None, err |-> Nil, faulted |-> FALSE, fresh |-> FALSE]

NoRoundTrip == [done |-> FALSE, version |-> noVersion, err |-> Nil, got |-> noVersion]

NoLast == [op |-> None]

ResolverIdle == input = <<>> /\ resolved = NoResolved

SchemaIdle == tx = EmptyStore /\ prev = NoPrev /\ ret = NoCall

RoundTripIdle == rt = NoRoundTrip

ConnectIdle == stores = <<>> /\ fs = {} /\ last = NoLast

(***************************************************************************)
(* SpecTx: createSchema and updateSchemaVersion called, in any order and   *)
(* with any single engine fault, on one Tx that starts on an absent schema *)
(***************************************************************************)

\* the versions updateSchemaVersion is called with
UpgradeTargets ==
    {noVersion, latestSchemaVersion,
     [major |-> 0, minor |-> 6, patch |-> 0, revision |-> 0],
     [major |-> 0, minor |-> 7, patch |-> 0, revision |-> 2]}

Summary(call, store) ==
    [op |-> call.op, err |-> call.err, faulted |-> call.faulted,
     fresh |-> (call.op # None /\ call.before = EmptyStore)]

CallCreateSchema ==
    \E f \in Faults(SchemaExecs, 2) :
        \E r \in {createSchema(Start(tx), f)} :
        /\ tx' = r.st
        /\ prev' = Summary(ret, tx)
        /\ ret' = [op |-> "createSchema", version |-> latestSchemaVersion,
                   faulted |-> (f # NoFault), err |-> r.err, execs |-> r.n,
                   rows |-> r.rows, before |-> tx]
        /\ UNCHANGED <<input, resolved, rt, stores, fs, last>>

CallUpdateSchemaVersion ==
    \E version \in UpgradeTargets, f \in Faults(1, 1) :
        \E r \in {updateSchemaVersion(Start(tx), version, f)} :
        /\ tx' = r.st
        /\ prev' = Summary(ret, tx)
        /\ ret' = [op |-> "updateSchemaVersion", version |-> version,
                   faulted |-> (f # NoFault), err |-> r.err, execs |-> r.n,
                   rows |-> r.rows, before |-> tx]
        /\ UNCHANGED <<input, resolved, rt, stores, fs, last>>

InitTx == ResolverIdle /\ SchemaIdle /\ RoundTripIdle /\ ConnectIdle

NextTx == CallCreateSchema \/ CallUpdateSchemaVersion

SpecTx == InitTx /\ [][NextTx]_vars

(***************************************************************************)
(* Properties of the schema functions (SpecTx)                             *)
(***************************************************************************)

\* the number of rows of the version table that the last call changed in place
RowsChanged(before, after) ==
    Cardinality({k \in 1..Len(after) : k > Len(before) \/ before[k] # after[k]})

\* C1 (as claimed): createSchema called twice in succession on the same fresh
\* store, with no engine fault: the second call returns no error, and the
\* version table then holds exactly one row and the value table exactly one
\* row, with id 0.
C1_CreateSchemaIdempotent ==
    (/\ prev.op = "createSchema" /\ prev.fresh /\ ~prev.faulted /\ prev.err = Nil
     /\ ret.op = "createSchema" /\ ~ret.faulted)
    => /\ ret.err = Nil
       /\ Len(tx.version) = 1
       /\ Cardinality(tx.value) = 1
       /\ \A row \in tx.value : row.id = 0

\* C8: starting from an absent schema, whatever createSchema and
\* updateSchemaVersion calls are made and whether they succeed or fail, the
\* version table never holds more than one row, and a row it holds is never
\* deleted: a step leaves it as one row (updated in place or untouched).
C8_VersionSingleton ==
    [][/\ Len(tx.version) <= 1
       /\ Len(tx'.version) <= 1
       /\ (Len(tx.version) = 1 => Len(tx'.version) = 1)]_vars

\* C8 witness: the single version row has been updated in place to another version
C8_Witness ==
    /\ ret.op = "updateSchemaVersion"
    /\ Len(ret.before.version) = 1
    /\ Len(tx.version) = 1
    /\ tx.version[1] # ret.before.version[1]
    /\ prev.op = "createSchema"

\* C10: updateSchemaVersion(tx, v).  When the store's current version equals v
\* it issues no statement, changes nothing and returns no error.  When it
\* differs it issues the update; a return without error means exactly one row
\* was changed and the current version is now v, which is what happens on a
\* store that holds its version row when the engine does not fail; and whenever
\* the update affected a number of rows other than one it returns an error.
C10_UpdateSchemaVersion ==
    ret.op = "updateSchemaVersion" =>
        LET cur == currentSchemaVersion(ret.before) IN
        /\ cur = ret.version =>
              /\ ret.execs = 0
              /\ tx = ret.before
              /\ ret.err = Nil
        /\ cur # ret.version =>
              /\ ret.execs = 1
              /\ ret.err = Nil =>
                    /\ RowsChanged(ret.before.version, tx.version) = 1
                    /\ Len(tx.version) = Len(ret.before.version)
                    /\ currentSchemaVersion(tx) = ret.version
              /\ (Len(ret.before.version) = 1 /\ ~ret.faulted) => ret.err = Nil
              /\ ret.rows # 1 => ret.err # Nil

\* C10 witness: an update to a differing version changed the one row
C10_Witness ==
    /\ ret.op = "updateSchemaVersion"
    /\ ret.err = Nil
    /\ ret.execs = 1
    /\ ret.rows = 1
    /\ tx.version = <<ret.version>>
    /\ ret.before.version # tx.version

\* the statements of createSchema in the order the spec gives them: the
\* tables with their indexes, the sentinel value, the schema version
SchemaOrder ==
    <<"tag", "idx_tag_name", "file", "idx_file_fingerprint", "value",
      "file_tag", "idx_file_tag_file_id", "idx_file_tag_tag_id", "idx_file_tag_value_id",
      "implication", "query", "setting", "version", "insert value", "insert version">>

SchemaTables ==
    {"tag", "file", "value", "file_tag", "implication", "query", "setting", "version"}

\* the first n statements of the order
FirstStatements(n) == {SchemaOrder[k] : k \in 1..n}

\* the number of statements of the last call that took effect: all that were
\* executed, but for the last one when it is the one the engine rejected
TookEffect(call) ==
    IF call.err \in {EngineError, "could not insert default value",
                     "could not update schema version"}
    THEN call.execs - 1 ELSE call.execs

\* C14: createSchema executes its statements in the order tag, file, value,
\* file_tag, implication, query, setting, version (each table followed by its
\* indexes), the sentinel value insert, the schema-version insert: whatever
\* statement fails, exactly the statements before it have taken effect, no
\* later one is executed and the error of the failing step is returned; so
\* file_tag is never created before tag, file and value.
C14_CreateOrder ==
    ret.op = "createSchema" =>
        LET n == TookEffect(ret) IN
        /\ ret.execs \in 1..Len(SchemaOrder)
        /\ ret.err = Nil => ret.execs = Len(SchemaOrder)
        /\ tx.tables = ret.before.tables \cup (FirstStatements(n) \cap SchemaTables)
        /\ tx.indexes = ret.before.indexes
                           \cup (FirstStatements(n)
                                    \ (SchemaTables \cup {"insert value", "insert version"}))
        /\ tx.value = ret.before.value
                         \cup (IF n >= 14 THEN {[id |-> 0, name |-> "dummy"]} ELSE {})
        /\ tx.version = IF n >= 15
                        THEN Append(ret.before.version,
                                    [major |-> 0, minor |-> 7, patch |-> 0, revision |-> 1])
                        ELSE ret.before.version
        /\ "file_tag" \in tx.tables => {"tag", "file", "value"} \subseteq tx.tables
        /\ (ret.err # Nil /\ ret.execs <= 13) => ret.err = EngineError
        /\ (ret.err # Nil /\ ret.execs = 14) =>
              ret.err \in {"could not insert default value", RowsAffectedError,
                           "default value could not be inserted"}
        /\ (ret.err # Nil /\ ret.execs = 15) =>
              ret.err \in {"could not update schema version", RowsAffectedError,
                           "version could not be inserted"}

\* C14 witness: createSchema on an absent schema failed when creating file_tag:
\* tag, file and value exist with their indexes and nothing after them
C14_Witness ==
    /\ ret.op = "createSchema"
    /\ ret.before = EmptyStore
    /\ ret.err # Nil
    /\ ret.execs = 6
    /\ tx.tables = {"tag", "file", "value"}
    /\ tx.value = {}

(***************************************************************************)
(* SpecScheme: GetScheme and HasScheme applied to every connection string   *)
(* of at most MaxPathLen characters over a word character, ':' and '/'     *)
(***************************************************************************)

MaxPathLen == 9

PathChars == {"a", ":", "/"}

PathStrings == UNION {[1..n -> PathChars] : n \in 0..MaxPathLen}

Resolve ==
    /\ ~resolved.done
    /\ resolved' = [done |-> TRUE, scheme |-> GetScheme(input), has |-> HasScheme(input),
                    target |-> OpenDB(input, NoFault).target]
    /\ UNCHANGED <<input, tx, prev, ret, rt, stores, fs, last>>

InitScheme ==
    /\ input \in PathStrings
    /\ resolved = NoResolved
    /\ SchemaIdle /\ RoundTripIdle /\ ConnectIdle

NextScheme == Resolve

SpecScheme == InitScheme /\ [][NextScheme]_vars

\* the positions of the "://" of s that are immediately preceded by a word character
SchemeSeps(s) == {j \in 2..Len(s) : SepAt(s, j) /\ IsWord(s[j - 1])}

\* C4 (as claimed): HasScheme(s) is true iff some occurrence of "://" in s is
\* immediately preceded by at least two word characters, also when s holds
\* more than one "://".
C4_HasSchemeAnyOccurrence ==
    resolved.done =>
        (resolved.has <=>
            \E j \in 3..Len(input) :
                SepAt(input, j) /\ IsWord(input[j - 1]) /\ IsWord(input[j - 2]))

\* C4 (amended): HasScheme(s) is true iff s holds a "://" immediately preceded
\* by a word character and the leftmost such occurrence is immediately
\* preceded by at least two word characters; the scheme is the run of word
\* characters before that occurrence.
C4_HasSchemeLeftmost ==
    resolved.done =>
        /\ resolved.has <=>
              /\ SchemeSeps(input) # {}
              /\ LET j == Min(SchemeSeps(input)) IN j > 2 /\ IsWord(input[j - 2])
        /\ resolved.has =>
              LET j == Min(SchemeSeps(input)) IN
              /\ Len(resolved.scheme) >= 2
              /\ resolved.scheme = SubSeq(input, j - Len(resolved.scheme), j - 1)
              /\ \A k \in 1..Len(resolved.scheme) : IsWord(resolved.scheme[k])
              /\ (j - Len(resolved.scheme) > 1 => ~IsWord(input[j - Len(resolved.scheme) - 1]))

\* C4 witness: a string with two "://", the first after a single word
\* character and a later one after two, on which HasScheme is false
C4_Witness ==
    /\ resolved.done
    /\ ~resolved.has
    /\ Cardinality(SepStarts(input)) >= 2
    /\ \E j \in 3..Len(input) :
           SepAt(input, j) /\ IsWord(input[j - 1]) /\ IsWord(input[j - 2])

\* C15 (as claimed): when HasScheme is true, OpenDB opens the driver named by
\* the scheme against the text that follows the "://" the scheme stands
\* before, also when the string holds several "://"; when HasScheme is false
\* it opens the embedded driver against the string itself.
C15_SchemeAndAddressAgree ==
    resolved.done =>
        IF resolved.has
        THEN /\ resolved.target.driver = resolved.scheme
             /\ \E j \in 2..Len(input) :
                   /\ SepAt(input, j)
                   /\ j - Len(resolved.scheme) >= 1
                   /\ SubSeq(input, j - Len(resolved.scheme), j - 1) = resolved.scheme
                   /\ resolved.target.dsn = SubSeq(input, j + 3, Len(input))
        ELSE resolved.target = [driver |-> Sqlite3, dsn |-> input]

(***************************************************************************)
(* SpecRoundTrip: insertSchemaVersion(v) followed by currentSchemaVersion  *)
(* on a Tx whose version table holds no row yet                            *)
(***************************************************************************)

MaxVersionField == 2

AllVersions ==
    [major : 0..MaxVersionField, minor : 0..MaxVersionField,
     patch : 0..MaxVersionField, revision : 0..MaxVersionField]
        \cup {latestSchemaVersion}

\* the store as createSchema has it when it calls insertSchemaVersion
StoreBeforeInsert ==
    createSchema(Start(EmptyStore), [kind |-> "exec", at |-> SchemaExecs]).st

\* a store from before schema 0.7.0-1: its version table has no revision column
LegacyStore ==
    [StoreBeforeInsert EXCEPT
        !.vcols = LegacyVersionColumns,
        !.version = <<[major |-> 0, minor |-> 6, patch |-> 0]>>]

InsertThenRead ==
    \E version \in AllVersions, f \in Faults(1, 1) :
        \E r \in {insertSchemaVersion(Start(tx), version, f)} :
        /\ ~rt.done
        /\ tx' = r.st
        /\ rt' = [done |-> TRUE, version |-> version, err |-> r.err,
                  got |-> currentSchemaVersion(r.st)]
        /\ UNCHANGED <<input, resolved, prev, ret, stores, fs, last>>

\* the legacy stores, one for each version of three fields
LegacyStores ==
    {[LegacyStore EXCEPT !.version = <<[major |-> a, minor |-> b, patch |-> c]>>] :
        a \in 0..MaxVersionField, b \in 0..MaxVersionField, c \in 0..MaxVersionField}

InitRoundTrip ==
    /\ tx \in {StoreBeforeInsert, EmptyStore, LegacyStore} \cup LegacyStores
    /\ prev = NoPrev /\ ret = NoCall
    /\ ResolverIdle /\ RoundTripIdle /\ ConnectIdle

NextRoundTrip == InsertThenRead

SpecRoundTrip == InitRoundTrip /\ [][NextRoundTrip]_vars

\* C9: for every version v, when insertSchemaVersion(tx, v) has returned no
\* error, currentSchemaVersion(tx) returns v in all four fields.
C9_VersionRoundTrip ==
    (rt.done /\ rt.err = Nil) => rt.got = rt.version

\* C9 witness: a version with four differing, non-zero-revision fields was
\* inserted and read back
C9_Witness ==
    /\ rt.done
    /\ rt.err = Nil
    /\ rt.version = [major |-> 1, minor |-> 2, patch |-> 0, revision |-> 2]
    /\ tx.version = <<rt.version>>

\* C16: currentSchemaVersion always returns a version: the row's three legacy
\* fields with revision 0 when the row has no revision column, the all-zero
\* version when the version table is absent or holds no row, and the row's
\* four fields when it has all four columns.
C16_CurrentNeverFails ==
    rt.done =>
        /\ DOMAIN rt.got = VersionColumns
        /\ \A c \in VersionColumns : rt.got[c] \in Nat
        /\ ("version" \notin tx.tables \/ tx.version = <<>>) =>
              rt.got = [major |-> 0, minor |-> 0, patch |-> 0, revision |-> 0]
        /\ ("version" \in tx.tables /\ tx.version # <<>>) =>
              /\ rt.got.major = tx.version[1].major
              /\ rt.got.minor = tx.version[1].minor
              /\ rt.got.patch = tx.version[1].patch
              /\ rt.got.revision = IF "revision" \in DOMAIN tx.version[1]
                                   THEN tx.version[1].revision ELSE 0

\* C16 witness: the version of a legacy store, whose row has three columns,
\* was read with revision 0
C16_Witness ==
    /\ rt.done
    /\ "version" \in tx.tables
    /\ tx.version = <<[major |-> 1, minor |-> 2, patch |-> 0]>>
    /\ rt.got = [major |-> 1, minor |-> 2, patch |-> 0, revision |-> 0]

(***************************************************************************)
(* Spec: the connect sequence.  initializeDatabase (CreateAt), OpenAt and  *)
(* insertRootPath are called on local and networked paths, each call with  *)
(* at most one failure of the filesystem or the engine.                    *)
(***************************************************************************)

DirA == <<"/", "a">>

NetPath == <<"m", "y", "s", "q", "l", ":", "/", "/", "h">>

\* a scheme no driver is registered for
UnknownDriverPath == <<"p", "g", ":", "/", "/", "h">>

InitPaths == {DirA, NetPath, UnknownDriverPath}

DbPaths == {DbPathOf(path) : path \in InitPaths}

Targets == {OpenTarget(path) : path \in DbPaths}

\* a complete schema whose version row is older than the latest
StaleStore ==
    [createSchema(Start(EmptyStore), NoFault).st EXCEPT
        !.version = <<[major |-> 0, minor |-> 7, patch |-> 0, revision |-> 0]>>]

NoOptions == [hasRootPath |-> FALSE, rootPath |-> <<>>]

OptionSets == {NoOptions, [hasRootPath |-> TRUE, rootPath |-> <<"/", "r">>]}

\* the single failures of one call: the named call fails, or the k-th Exec of
\* the schema step fails (its first, or the insert of the version row)
StepFaults(kinds) ==
    {NoFault} \cup [kind : kinds, at : {0}] \cup [kind : {"exec"}, at : {1, SchemaExecs}]

\* a call of insertRootPath that writes no setting makes no call that can fail
RootPathFaults(options, path) ==
    IF HasScheme(path) /\ options.hasRootPath
    THEN StepFaults({"stat", "open", "begin", "commit", "begin2", "setting",
                     "settingResult", "commit2"})
    ELSE {NoFault}

Record(op, path, options, f, o) ==
    [op |-> op, path |-> path, options |-> options, fault |-> f, err |-> o.err,
     db |-> o.db, trace |-> o.trace, before |-> [stores |-> stores, fs |-> fs]]

CallInitializeDatabase ==
    \E path \in InitPaths, f \in StepFaults({"mkdir", "open", "begin", "commit"}) :
        \E o \in {initializeDatabase(path, f, [stores |-> stores, fs |-> fs])} :
        /\ stores' = o.w.stores
        /\ fs' = o.w.fs
        /\ last' = Record("initializeDatabase", path, NoOptions, f, o)
        /\ UNCHANGED <<input, resolved, tx, prev, ret, rt>>

CallOpenAt ==
    \E path \in DbPaths, f \in StepFaults({"stat", "open", "begin", "commit"}) :
        \E o \in {OpenAt(path, f, [stores |-> stores, fs |-> fs])} :
        /\ stores' = o.w.stores
        /\ fs' = o.w.fs
        /\ last' = Record("OpenAt", path, NoOptions, f, o)
        /\ UNCHANGED <<input, resolved, tx, prev, ret, rt>>

CallInsertRootPath ==
    \E path \in InitPaths, options \in OptionSets :
      \E f \in RootPathFaults(options, path) :
        \E o \in {insertRootPath(options, path, f, [stores |-> stores, fs |-> fs])} :
        /\ stores' = o.w.stores
        /\ fs' = o.w.fs
        /\ last' = Record("insertRootPath", path, options, f, o)
        /\ UNCHANGED <<input, resolved, tx, prev, ret, rt>>

Init ==
    /\ ResolverIdle /\ SchemaIdle /\ RoundTripIdle
    /\ fs = {<<"/">>, DirA}
    /\ stores \in {s \in [Targets -> {EmptyStore, StaleStore}] :
                      \A target \in Targets : target.driver # MySql => s[target] = EmptyStore}
    /\ last = NoLast

Next == CallInitializeDatabase \/ CallOpenAt \/ CallInsertRootPath

Spec == Init /\ [][Next]_vars

(***************************************************************************)
(* Properties of the connect sequence (Spec)                               *)
(***************************************************************************)

\* every connection opened in the trace is closed later in it, and every
\* transaction begun in it is committed or rolled back later in it
Released(trace) ==
    \A i \in 1..Len(trace) :
        /\ (trace[i].ev = "open" /\ trace[i].ok) =>
              \E j \in (i + 1)..Len(trace) :
                  trace[j].ev = "close" /\ trace[j].conn = trace[i].conn
        /\ (trace[i].ev = "begin" /\ trace[i].ok) =>
              \E j \in (i + 1)..Len(trace) :
                  trace[j].ev \in {"commit", "rollback"} /\ trace[j].tx = trace[i].tx

\* every transaction begun in the trace is committed or rolled back before
\* its connection is closed, and nothing is committed after that close
ReleasedInOrder(trace) ==
    \A i \in 1..Len(trace) :
        (trace[i].ev = "close") =>
            /\ \A b \in 1..(i - 1) :
                  (trace[b].ev = "begin" /\ trace[b].ok /\ trace[b].conn = trace[i].conn) =>
                      \E j \in (b + 1)..(i - 1) :
                          trace[j].ev \in {"commit", "rollback"} /\ trace[j].tx = trace[b].tx
            /\ \A j \in (i + 1)..Len(trace) :
                  ~(trace[j].ev \in {"commit", "rollback"} /\ trace[j].conn = trace[i].conn)

\* C2 (as claimed): when CreateAt returns, when OpenAt returns an error and
\* when insertRootPath returns, every connection the call opened has been
\* closed and every transaction it began has been committed or rolled back.
C2_ResourcesReleased ==
    (\/ last.op \in {"initializeDatabase", "insertRootPath"}
     \/ (last.op = "OpenAt" /\ last.err # NoError))
    => Released(last.trace)

\* C3 (as claimed): in every run of CreateAt and of insertRootPath a
\* transaction is committed or rolled back before the connection that began it
\* is closed, and never committed on a connection already closed.
C3_ReleaseOrder ==
    last.op \in {"initializeDatabase", "insertRootPath"} => ReleasedInOrder(last.trace)

\* C5: OpenAt(path) returns DatabaseNotFoundError exactly when path has no
\* scheme and the filesystem reports that it does not exist; then nothing was
\* opened or begun and neither the filesystem nor any store changed.  For a
\* path with a scheme it never returns DatabaseNotFoundError.
C5_NotFound ==
    last.op = "OpenAt" =>
        LET notExist == last.path \notin last.before.fs /\ last.fault.kind # "stat" IN
        /\ last.err.kind = "DatabaseNotFoundError" <=> (~HasScheme(last.path) /\ notExist)
        /\ last.err.kind = "DatabaseNotFoundError" =>
              /\ last.trace = <<>>
              /\ ~last.db
              /\ last.err.path = last.path
              /\ fs = last.before.fs
              /\ stores = last.before.stores
        /\ HasScheme(last.path) => last.err.kind # "DatabaseNotFoundError"

\* C5 witness: OpenAt on a local path that was never initialized
C5_Witness ==
    /\ last.op = "OpenAt"
    /\ ~HasScheme(last.path)
    /\ last.path \notin last.before.fs
    /\ last.err.kind = "DatabaseNotFoundError"

\* C6: OpenAt returns a connection only when the schema step returned no error
\* and the transaction around it was then committed, and the store it returns
\* is at the latest schema version; when the schema step or the commit fails
\* it returns an error and no connection.
C6_ConnectionOnlyAfterCommit ==
    last.op = "OpenAt" =>
        /\ last.db =>
              /\ last.err = NoError
              /\ \E i, j \in 1..Len(last.trace) :
                    /\ i < j
                    /\ last.trace[i].ev = "upgrade" /\ last.trace[i].ok
                    /\ last.trace[j].ev = "commit" /\ last.trace[j].ok
              /\ \A i \in 1..Len(last.trace) : last.trace[i].ok
              /\ currentSchemaVersion(stores[OpenTarget(last.path)])
                    = [major |-> 0, minor |-> 7, patch |-> 0, revision |-> 1]
        /\ (\E i \in 1..Len(last.trace) :
                last.trace[i].ev \in {"upgrade", "commit"} /\ ~last.trace[i].ok)
              => (last.err # NoError /\ ~last.db)
        /\ last.err # NoError => ~last.db

\* C6 witness: OpenAt returned the connection of a store whose schema it had
\* to create or upgrade in the call
C6_Witness ==
    /\ last.op = "OpenAt"
    /\ last.db
    /\ stores[OpenTarget(last.path)] # last.before.stores[OpenTarget(last.path)]

\* C7: initializeDatabase of a local path whose store has no tables, when it
\* returns no error, leaves at <path>/.tmsu/db a store whose version table
\* holds the single row {0, 7, 0, 1} and whose value table holds the row
\* {id 0, name "dummy"}; the directory and the file exist.
C7_FreshStore ==
    (/\ last.op = "initializeDatabase"
     /\ ~HasScheme(last.path)
     /\ last.err = NoError)
    => LET dir == last.path \o <<"/", ".", "t", "m", "s", "u">>
           file == dir \o <<"/", "d", "b">>
           at == [driver |-> Sqlite3, dsn |-> file]
       IN
       /\ at \in DOMAIN stores
       /\ last.before.stores[at].tables = {} =>
             /\ stores[at].version = <<[major |-> 0, minor |-> 7, patch |-> 0, revision |-> 1]>>
             /\ [id |-> 0, name |-> "dummy"] \in stores[at].value
             /\ "version" \in stores[at].tables /\ "value" \in stores[at].tables
       /\ dir \in fs
       /\ file \in fs

\* C7 witness: a local path without a .tmsu directory was initialized
C7_Witness ==
    /\ last.op = "initializeDatabase"
    /\ last.path = DirA
    /\ last.err = NoError
    /\ Join(DirA, TmsuDir) \notin last.before.fs
    /\ stores[OpenTarget(DbPathOf(DirA))].version # <<>>


\* C17: in CreateAt and OpenAt a failure to open the connection, and a stat
\* failure other than not-exist on a path without a scheme, is returned as
\* DatabaseAccessError with the path; a failure of begin or of commit is
\* returned as DatabaseTransactionError with the path; in each case an error
\* is returned and no connection.
C17_ErrorKinds ==
    last.op \in {"initializeDatabase", "OpenAt"} =>
        LET dbPath == IF last.op = "OpenAt" THEN last.path
                      ELSE IF HasScheme(last.path) THEN last.path
                      ELSE last.path \o <<"/", ".", "t", "m", "s", "u", "/", "d", "b">>
        IN
        /\ \A i \in 1..Len(last.trace) :
              /\ (last.trace[i].ev = "open" /\ ~last.trace[i].ok) =>
                    last.err = [kind |-> "DatabaseAccessError", path |-> dbPath] /\ ~last.db
              /\ (last.trace[i].ev \in {"begin", "commit"} /\ ~last.trace[i].ok) =>
                    last.err = [kind |-> "DatabaseTransactionError", path |-> dbPath]
                        /\ ~last.db
        /\ (last.op = "OpenAt" /\ last.fault.kind = "stat" /\ ~HasScheme(last.path)) =>
              last.err = [kind |-> "DatabaseAccessError", path |-> dbPath] /\ ~last.db
        /\ (last.op = "initializeDatabase" /\ last.fault.kind = "open") =>
              last.err = [kind |-> "DatabaseAccessError", path |-> dbPath] /\ ~last.db
        /\ (last.op = "initializeDatabase" /\ last.fault.kind \in {"begin", "commit"}) =>
              last.err.kind \in {"DatabaseAccessError", "DatabaseTransactionError"}
                  /\ last.err.path = dbPath
        /\ (HasScheme(dbPath) /\ GetScheme(dbPath) \notin {Sqlite3, MySql}) =>
              last.err = [kind |-> "DatabaseAccessError", path |-> dbPath] /\ ~last.db

\* C17 witness: OpenAt of an initialized local store failed at begin and
\* returned DatabaseTransactionError with the path
C17_Witness ==
    /\ last.op = "OpenAt"
    /\ ~HasScheme(last.path)
    /\ last.path \in last.before.fs
    /\ last.fault.kind = "begin"
    /\ last.err = [kind |-> "DatabaseTransactionError", path |-> last.path]
    /\ ~last.db

(***************************************************************************)
(* initExec: the init command over a list of paths                         *)
(***************************************************************************)

\* os.Getwd() when it succeeds
WorkingDirectory == DirA

\* initExec: the paths the loop runs over
TargetPaths(args, databasePath) ==
    IF HasScheme(databasePath) THEN <<databasePath>>
    ELSE IF Len(args) = 0 THEN <<WorkingDirectory>>
    ELSE args

Warning(path, message, err) == [path |-> path, message |-> message, err |-> err]

\* what the loop has done so far: the world, the warnings collected and, per
\* path attempted, the errors of its two calls and what insertRootPath did
Attempted(path, initErr, rootErr, rootTrace) ==
    [path |-> path, initErr |-> initErr, rootErr |-> rootErr, rootTrace |-> rootTrace]

\* the loop body from the return of insertRootPath on
initExecRooted(path, acc, r) ==
    [w |-> r.w,
     warnings |-> IF r.err # NoError
                  THEN Append(acc.warnings,
                              Warning(path, "could not initialize database with root path", r.err))
                  ELSE acc.warnings,
     results |-> Append(acc.results, Attempted(path, NoError, r.err, r.trace))]

\* the loop body from the return of initializeDatabase on
initExecInitialized(options, path, f, acc, o) ==
    IF o.err # NoError
    THEN [w |-> o.w,
          warnings |-> Append(acc.warnings,
                              Warning(path, "could not initialize database", o.err)),
          results |-> Append(acc.results, Attempted(path, o.err, NoError, <<>>))]
    ELSE initExecRooted(path, acc, insertRootPath(options, path, f, o.w))

initExecBody(options, path, f, acc) ==
    initExecInitialized(options, path, f, acc, initializeDatabase(path, f, acc.w))

RECURSIVE initExecLoop_Abort(_, _, _, _, _)
initExecLoop_Abort(options, paths, faults, i, acc) ==
    IF i > Len(paths) \/ acc.warnings # <<>> THEN acc
    ELSE initExecLoop_Abort(options, paths, faults, i + 1,
                            initExecBody(options, paths[i], faults[i], acc))

\* for _, path := range paths
RECURSIVE initExecLoop(_, _, _, _, _)
initExecLoop(options, paths, faults, i, acc) ==
    IF i > Len(paths) THEN acc
    ELSE initExecLoop(options, paths, faults, i + 1,
                      initExecBody(options, paths[i], faults[i], acc))

initExecReturn(acc) ==
    [err |-> Nil, warnings |-> acc.warnings, results |-> acc.results, w |-> acc.w]

\* initExec(options, args, databasePath); getwd tells whether os.Getwd succeeds
initExec(options, args, databasePath, getwd, faults, w) ==
    IF ~HasScheme(databasePath) /\ Len(args) = 0 /\ ~getwd
    THEN [err |-> "could not identify working directory", warnings |-> <<>>,
          results |-> <<>>, w |-> w]
    ELSE initExecReturn(
             initExecLoop(options, TargetPaths(args, databasePath), faults, 1,
                          [w |-> w, warnings |-> <<>>, results |-> <<>>]))


(***************************************************************************)
(* SpecBatch: one run of initExec over a list of at most MaxBatch local     *)
(* paths, or on a networked database path, each path with at most one      *)
(* failure                                                                 *)
(***************************************************************************)

MaxBatch == 3

DirB == <<"/", "b">>

\* a directory that does not exist, so nothing can be created under it
DirC == <<"/", "c">>

BatchPaths == {DirA, DirB, DirC}

ArgLists == UNION {[1..n -> BatchPaths] : n \in 0..MaxBatch}

\* the lists given along with a database path that carries a scheme
IgnoredArgLists == {<<>>, <<DirA>>, <<DirB, DirA>>}

NoDatabasePath == <<>>

BatchTargets == {OpenTarget(DbPathOf(path)) : path \in BatchPaths \cup {NetPath}}

FreshWorld ==
    [stores |-> [target \in BatchTargets |-> EmptyStore], fs |-> {<<"/">>, DirA, DirB}]

\* the worlds a run starts in: nothing initialized, DirA initialized by an
\* earlier run, or a networked store left at an older schema version
BatchWorlds ==
    {FreshWorld,
     initializeDatabase(DirA, NoFault, FreshWorld).w,
     [FreshWorld EXCEPT !.stores[OpenTarget(NetPath)] = StaleStore]}

\* the single failures tried on one path of the list
PathFaults(path) ==
    IF HasScheme(path)
    THEN StepFaults({"begin", "commit", "begin2", "setting", "settingResult"})
    ELSE {NoFault, [kind |-> "commit", at |-> 0]}

FaultLists(paths) ==
    {q \in [1..Len(paths) -> UNION {PathFaults(paths[i]) : i \in 1..Len(paths)}] :
        \A i \in 1..Len(paths) : q[i] \in PathFaults(paths[i])}

CallInitExec ==
    /\ last.op = None
    /\ \E databasePath \in {NoDatabasePath, NetPath}, options \in OptionSets :
       \E args \in IF HasScheme(databasePath) THEN IgnoredArgLists ELSE ArgLists :
         \E getwd \in IF Len(args) = 0 /\ ~HasScheme(databasePath)
                       THEN BOOLEAN ELSE {TRUE},
            faults \in FaultLists(TargetPaths(args, databasePath)) :
           \E o \in {initExec(options, args, databasePath, getwd, faults,
                              [stores |-> stores, fs |-> fs])} :
             /\ stores' = o.w.stores
             /\ fs' = o.w.fs
             /\ last' = [op |-> "initExec", args |-> args, databasePath |-> databasePath,
                         options |-> options, getwd |-> getwd, faults |-> faults,
                         err |-> o.err, warnings |-> o.warnings, results |-> o.results,
                         before |-> [stores |-> stores, fs |-> fs]]
             /\ UNCHANGED <<input, resolved, tx, prev, ret, rt>>

InitBatch ==
    /\ ResolverIdle /\ SchemaIdle /\ RoundTripIdle
    /\ \E w \in BatchWorlds : stores = w.stores /\ fs = w.fs
    /\ last = NoLast

NextBatch == CallInitExec

SpecBatch == InitBatch /\ [][NextBatch]_vars

\* the positions of the attempted paths that got a warning
FailedAt(results) ==
    {i \in 1..Len(results) : results[i].initErr # NoError \/ results[i].rootErr # NoError}

\* the warnings are those of the failed positions, one each and in order
WarningsMatch(warnings, results) ==
    /\ Len(warnings) = Cardinality(FailedAt(results))
    /\ \A i \in FailedAt(results) :
          LET k == Cardinality({j \in FailedAt(results) : j <= i}) IN
          /\ warnings[k].path = results[i].path
          /\ warnings[k].err = IF results[i].initErr # NoError
                               THEN results[i].initErr ELSE results[i].rootErr

\* C11 (as claimed): for every list of target paths, initExec attempts every
\* path of the list in order, returns a nil error, and returns exactly one
\* warning per path that failed to initialize, naming it.
C11_BatchNeverAborts ==
    last.op = "initExec" =>
        /\ last.err = Nil
        /\ Len(last.results) >= Len(last.args)
        /\ \A i \in 1..Len(last.args) : last.results[i].path = last.args[i]
        /\ Len(last.warnings) =
              Cardinality({i \in 1..Len(last.results) : last.results[i].initErr # NoError})

\* C11 (amended): the paths initExec works on are the database path alone
\* when it carries a scheme, else the listed paths, else the working
\* directory.  When the working directory is needed and cannot be identified
\* it returns an error, no warning, and touches nothing.  Otherwise it returns
\* a nil error, attempts every one of those paths in order whatever failed
\* before, leaves a store at the latest version for every path whose
\* initialization returned no error, and returns one warning, naming the
\* path, for every path whose initialization or whose root-path write failed,
\* in order.  Without an injected failure a local path fails exactly when its
\* directory does not exist.
C11_BatchContinues ==
    last.op = "initExec" =>
        LET paths == IF HasScheme(last.databasePath) THEN <<last.databasePath>>
                     ELSE IF last.args = <<>> THEN <<DirA>>
                     ELSE last.args
        IN
        IF ~HasScheme(last.databasePath) /\ last.args = <<>> /\ ~last.getwd
        THEN /\ last.err # Nil
             /\ last.warnings = <<>>
             /\ stores = last.before.stores /\ fs = last.before.fs
        ELSE /\ last.err = Nil
             /\ Len(last.results) = Len(paths)
             /\ \A i \in 1..Len(paths) :
                   /\ last.results[i].path = paths[i]
                   /\ last.results[i].initErr = NoError =>
                         currentSchemaVersion(stores[OpenTarget(DbPathOf(paths[i]))])
                             = [major |-> 0, minor |-> 7, patch |-> 0, revision |-> 1]
                   /\ (~HasScheme(paths[i]) /\ last.faults[i] = NoFault) =>
                         (last.results[i].initErr # NoError <=> paths[i] \notin last.before.fs)
             /\ WarningsMatch(last.warnings, last.results)

\* C11 witness: three local paths, the second under a directory that cannot
\* be written: two stores are created and one warning names the second path
C11_Witness ==
    /\ last.op = "initExec"
    /\ last.args = <<DirA, DirC, DirB>>
    /\ last.before = FreshWorld
    /\ Len(last.warnings) = 1
    /\ last.warnings[1].path = DirC
    /\ stores[OpenTarget(DbPathOf(DirA))].version # <<>>
    /\ stores[OpenTarget(DbPathOf(DirB))].version # <<>>
    /\ stores[OpenTarget(DbPathOf(DirC))].version = <<>>


\* C18 (as claimed): the rootPath setting is written only for a path that
\* carries a scheme, with the --root-path option supplied, after its
\* initialization succeeded; for a local path, without the option, or after a
\* failed initialization no connection is opened for it and no setting is
\* written; and when the setting update fails, the failed write is not committed.
C18_RootPathWrites ==
    last.op = "initExec" =>
        \A i \in 1..Len(last.results) :
            LET r == last.results[i]
                target == OpenTarget(DbPathOf(r.path))
                written == stores[target].setting # last.before.stores[target].setting
            IN
            /\ written =>
                  /\ HasScheme(r.path)
                  /\ last.options.hasRootPath
                  /\ r.initErr = NoError
            /\ (~HasScheme(r.path) \/ ~last.options.hasRootPath \/ r.initErr # NoError) =>
                  /\ r.rootTrace = <<>>
                  /\ ~written
            /\ r.rootErr # NoError => ~written

(***************************************************************************)
(* DialectTranslator: compatMySql, finalizeQuery, Tx.Exec and Tx.Query     *)
(***************************************************************************)

Digits == {"0", "1", "2", "3", "4", "5", "6", "7", "8", "9"}

\* \s
Spaces == {" ", "\t", "\n", "\r", "\f"}

\* the number of consecutive characters of s from position i on that are in chars
Span(s, i, chars) ==
    Min({k \in i..(Len(s) + 1) : k = Len(s) + 1 \/ s[k] \notin chars}) - i

\* whether the literal text lit stands in s at position i
LiteralAt(s, i, lit) ==
    /\ i + Len(lit) - 1 <= Len(s)
    /\ SubSeq(s, i, i + Len(lit) - 1) = lit

KwInsert == <<"I", "N", "S", "E", "R", "T">>

KwOr == <<"O", "R">>

KwIgnore == <<"I", "G", "N", "O", "R", "E">>

KwReplace == <<"R", "E", "P", "L", "A", "C", "E">>

\* the four patterns of compatMySql and what each match is replaced by
NumberedParameter == [pattern |-> "?digits", to |-> <<"?">>]

InsertOrIgnore == [pattern |-> "INSERT OR IGNORE", to |-> <<"I", "N", "S", "E", "R", "T", " ", "I", "G", "N", "O", "R", "E", " ">>]

InsertOrReplace == [pattern |-> "INSERT OR REPLACE", to |-> <<"R", "E", "P", "L", "A", "C", "E", " ">>]

DoubleEquals == [pattern |-> "==", to |-> <<"=">>]

\* `INSERT\s+OR\s+<word>\s+` at position i: the length of the match, 0 if none.
\* Each \s+ takes the whole run of white space, which a keyword must follow.
InsertOrLen(s, i, word) ==
    IF ~LiteralAt(s, i, KwInsert) THEN 0
    ELSE LET a == i + Len(KwInsert)
             b == a + Span(s, a, Spaces)
             c == b + Len(KwOr)
             d == c + Span(s, c, Spaces)
             e == d + Len(word)
             g == e + Span(s, e, Spaces)
         IN IF /\ b > a /\ LiteralAt(s, b, KwOr)
               /\ d > c /\ LiteralAt(s, d, word)
               /\ g > e
            THEN g - i ELSE 0

\* the length of the match of a pattern that starts at position i, 0 if none
MatchLen(rule, s, i) ==
    CASE rule.pattern = "?digits" ->
             IF s[i] = "?" /\ Span(s, i + 1, Digits) > 0
             THEN 1 + Span(s, i + 1, Digits) ELSE 0
      [] rule.pattern = "INSERT OR IGNORE" -> InsertOrLen(s, i, KwIgnore)
      [] rule.pattern = "INSERT OR REPLACE" -> InsertOrLen(s, i, KwReplace)
      [] rule.pattern = "==" -> IF LiteralAt(s, i, <<"=", "=">>) THEN 2 ELSE 0

\* regexp.ReplaceAllString from position i on: the matches are taken from
\* left to right and do not overlap
RECURSIVE ReplaceAllFrom(_, _, _)
ReplaceAllFrom(rule, s, i) ==
    IF i > Len(s) THEN <<>>
    ELSE IF MatchLen(rule, s, i) > 0
    THEN rule.to \o ReplaceAllFrom(rule, s, i + MatchLen(rule, s, i))
    ELSE <<s[i]>> \o ReplaceAllFrom(rule, s, i + 1)

ReplaceAllString(rule, s) == ReplaceAllFrom(rule, s, 1)

compatMySql_NoReplace(query) ==
    ReplaceAllString(DoubleEquals,
        ReplaceAllString(InsertOrIgnore,
            ReplaceAllString(NumberedParameter, query)))

compatMySql(query) ==
    ReplaceAllString(DoubleEquals,
        ReplaceAllString(InsertOrReplace,
            ReplaceAllString(InsertOrIgnore,
                ReplaceAllString(NumberedParameter, query))))

\* reflect.TypeOf(db.Driver()).Elem().String()
DriverTypeName(driver) ==
    IF driver = MySql THEN <<"m", "y", "s", "q", "l", ".", "M", "y", "S", "Q", "L", "D", "r", "i", "v", "e", "r">>
    ELSE <<"s", "q", "l", "i", "t", "e", "3", ".", "S", "Q", "L", "i", "t", "e", "D", "r", "i", "v", "e", "r">>

\* strings.Split(dbDriverType, ".")[0]
BeforeDot(s) == SubSeq(s, 1, Span(s, 1, {c \in {s[k] : k \in 1..Len(s)} : c # "."}))

\* GetDriverName: the registered driver the Tx is tagged with when it is begun
GetDriverName(driver) ==
    IF BeforeDot(DriverTypeName(driver)) \in Drivers
    THEN BeforeDot(DriverTypeName(driver)) ELSE <<>>

finalizeQuery_Always(driver, query) == compatMySql(query)

finalizeQuery(driver, query) ==
    IF driver = MySql THEN compatMySql(query) ELSE query

\* Tx.Exec: the text handed to tx.tx.Exec
TxExec(driver, query) == finalizeQuery(driver, query)

\* Tx.Query: the text handed to tx.tx.Query
TxQuery(driver, query) == finalizeQuery(driver, query)


(***************************************************************************)
(* SpecDialect: a statement is passed to Exec and to Query of a Tx begun   *)
(* on the embedded or on the networked backend.  The statements are every  *)
(* string of at most MaxStmtLen characters over '?', a digit, '=' and a    *)
(* letter, and the INSERT OR ... phrases with varying white space.         *)
(***************************************************************************)

MaxStmtLen == 6

StmtChars == {"?", "1", "=", "a"}

ShortStatements == UNION {[1..n -> StmtChars] : n \in 0..MaxStmtLen}

PhraseGaps == {<<>>, <<" ">>, <<" ", " ">>, <<"\n", "\t">>}

PhraseTails == {<<"I", "N", "T", "O", " ", "x">>, <<"I", "N", "T", "O", " ", "t", " ", "W", "H", "E", "R", "E", " ", "a", " ", "=", "=", " ", "?", "2">>}

PhraseStatements ==
    {w1 \o g1 \o w2 \o g2 \o w3 \o g3 \o tail :
        w1 \in {KwInsert, <<"x">>}, w2 \in {KwOr, <<"x">>}, w3 \in {KwIgnore, KwReplace},
        g1 \in PhraseGaps, g2 \in PhraseGaps, g3 \in PhraseGaps, tail \in PhraseTails}

StmtInsertOrIgnore == <<"I", "N", "S", "E", "R", "T", " ", "O", "R", " ", "I", "G", "N", "O", "R", "E", " ", "I", "N", "T", "O", " ", "x">>

StmtInsertOrReplace == <<"I", "N", "S", "E", "R", "T", " ", "O", "R", " ", "R", "E", "P", "L", "A", "C", "E", " ", "I", "N", "T", "O", " ", "x">>

StmtWhere == <<"W", "H", "E", "R", "E", " ", "a", " ", "=", "=", " ", "?">>

StmtNumbered == <<"a", " ", "=", " ", "?", "2">>

Statements ==
    ShortStatements \cup PhraseStatements
        \cup {StmtInsertOrIgnore, StmtInsertOrReplace, StmtWhere, StmtNumbered}

\* db.Begin() on the store a path names, then tx.Exec(input) and tx.Query(input)
Dispatch ==
    /\ ~resolved.done
    /\ \E path \in {DbPathOf(DirA), NetPath} :
         \E driver \in {GetDriverName(OpenTarget(path).driver)} :
           resolved' = [done |-> TRUE, driver |-> driver,
                        exec |-> TxExec(driver, input), query |-> TxQuery(driver, input)]
    /\ UNCHANGED <<input, tx, prev, ret, rt, stores, fs, last>>

InitDialect ==
    /\ input \in Statements
    /\ resolved = NoResolved
    /\ SchemaIdle /\ RoundTripIdle /\ ConnectIdle

NextDialect == Dispatch

SpecDialect == InitDialect /\ [][NextDialect]_vars

\* whether s holds a '?' immediately followed by a digit
HasNumbered(s) == \E k \in 1..(Len(s) - 1) : s[k] = "?" /\ s[k + 1] \in Digits

\* whether s holds "=="
HasDoubleEquals(s) == \E k \in 1..(Len(s) - 1) : s[k] = "=" /\ s[k + 1] = "="

\* s rewritten in one pass from position i on: where a pattern matches, its
\* replacement; every other character as it is
RECURSIVE RewrittenFrom(_, _)
RewrittenFrom(s, i) ==
    IF i > Len(s) THEN <<>>
    ELSE LET matching == {rule \in {NumberedParameter, InsertOrIgnore,
                                     InsertOrReplace, DoubleEquals} :
                              MatchLen(rule, s, i) > 0}
         IN IF matching = {} THEN <<s[i]>> \o RewrittenFrom(s, i + 1)
            ELSE LET rule == CHOOSE r \in matching : TRUE
                 IN rule.to \o RewrittenFrom(s, i + MatchLen(rule, s, i))

\* C12: on a Tx of the networked (mysql) backend the text dispatched is the
\* statement with every match of the four patterns replaced and every other
\* character left as it is: INSERT OR IGNORE INTO x gives INSERT IGNORE INTO x,
\* INSERT OR REPLACE INTO x gives REPLACE INTO x, WHERE a == ? gives
\* WHERE a = ?, no '?' followed by digits remains, and a statement without a
\* match is dispatched unchanged.
C12_MySqlRewrites ==
    (resolved.done /\ resolved.driver = MySql) =>
        /\ resolved.exec = RewrittenFrom(input, 1)
        /\ ~HasNumbered(resolved.exec)
        /\ input = StmtInsertOrIgnore => resolved.exec = <<"I", "N", "S", "E", "R", "T", " ", "I", "G", "N", "O", "R", "E", " ", "I", "N", "T", "O", " ", "x">>
        /\ input = StmtInsertOrReplace => resolved.exec = <<"R", "E", "P", "L", "A", "C", "E", " ", "I", "N", "T", "O", " ", "x">>
        /\ input = StmtWhere => resolved.exec = <<"W", "H", "E", "R", "E", " ", "a", " ", "=", " ", "?">>
        /\ input = StmtNumbered => resolved.exec = <<"a", " ", "=", " ", "?">>
        /\ (/\ ~HasNumbered(input) /\ ~HasDoubleEquals(input)
            /\ \A k \in 1..Len(input) : ~LiteralAt(input, k, KwInsert))
           => resolved.exec = input

\* C12 witness: a statement in which an INSERT OR REPLACE phrase with runs of
\* white space, a "==" and a numbered placeholder were all rewritten
C12_Witness ==
    /\ resolved.done /\ resolved.driver = MySql
    /\ input = <<"I", "N", "S", "E", "R", "T", "\n", "\t", "O", "R", " ", " ", "R", "E", "P", "L", "A", "C", "E", " ", "I", "N", "T", "O", " ", "t", " ", "W", "H", "E", "R", "E", " ", "a", " ", "=", "=", " ", "?", "2">>
    /\ resolved.exec = <<"R", "E", "P", "L", "A", "C", "E", " ", "I", "N", "T", "O", " ", "t", " ", "W", "H", "E", "R", "E", " ", "a", " ", "=", " ", "?">>

\* C13: Exec and Query of one Tx dispatch the same text for the same
\* statement; on a Tx of the embedded backend that text is the statement as
\* passed in, and on a Tx of the networked backend it is the translation.
C13_DispatchByBackend ==
    resolved.done =>
        /\ resolved.exec = resolved.query
        /\ resolved.driver \in {Sqlite3, MySql}
        /\ resolved.driver = Sqlite3 => resolved.exec = input
        /\ resolved.driver = MySql => resolved.exec = RewrittenFrom(input, 1)

\* C13 witness: a statement the translator would change went unchanged to the
\* embedded backend
C13_Witness ==
    /\ resolved.done /\ resolved.driver = Sqlite3
    /\ input = StmtInsertOrIgnore
    /\ resolved.exec = input /\ resolved.query = input

\* C19 (as claimed): the text dispatched to the networked backend holds no
\* "==", whatever the statement.
C19_NoDoubleEquals ==
    (resolved.done /\ resolved.driver = MySql) => ~HasDoubleEquals(resolved.exec)

=============================================================================
